---- MODULE Spec2Model ----
(***************************************************************************)
(* Model of the XML -> CSV converter (src/src/main.rs): one conversion of  *)
(* the selected input file, from File::open to the printed summary.        *)
(*                                                                         *)
(* Texts are sequences of one-character strings, so that the filename      *)
(* classification, the f64 parse of Valor / MetaPremio and the CSV         *)
(* encoding are computed character by character.                           *)
(***************************************************************************)
EXTENDS Integers, Sequences, FiniteSets, TLC

\* ------------------------------------------------------------------ bounds

\* Longest employee sequence of a document.
MaxFunc == 2

\* Capacity, in characters, of the csv writer's buffer.
BufCap == 40

\* Fraction digits kept by the fixed-point model of f64 amounts.
FracDigits == 2

\* ------------------------------------------------------------------- texts

NL == "\n"
QUOTE == "\""
DELIM == ";"

None == [none |-> TRUE]

Some(x) == [none |-> FALSE, val |-> x]

RECURSIVE Pow10(_)
Pow10(n) == IF n <= 0 THEN 1 ELSE 10 * Pow10(n - 1)

Take(s, n) == SubSeq(s, 1, n)

Drop(s, n) == SubSeq(s, n + 1, Len(s))

UpperChars == <<"A","B","C","D","E","F","G","H","I","J","K","L","M",
                "N","O","P","Q","R","S","T","U","V","W","X","Y","Z">>

LowerChars == <<"a","b","c","d","e","f","g","h","i","j","k","l","m",
                "n","o","p","q","r","s","t","u","v","w","x","y","z">>

DigitChars == <<"0","1","2","3","4","5","6","7","8","9">>

IsDigit(c) == \E i \in 1..10 : DigitChars[i] = c

DigitVal(c) == (CHOOSE i \in 1..10 : DigitChars[i] = c) - 1

ToLowerChar(c) ==
    IF \E i \in 1..26 : UpperChars[i] = c
    THEN LowerChars[CHOOSE i \in 1..26 : UpperChars[i] = c]
    ELSE c

ToLower(t) == [i \in 1..Len(t) |-> ToLowerChar(t[i])]

\* ------------------------------------------------- schema classification

\* selected_file_stem.split('_').next(): the text before the first '_',
\* the whole stem when it holds none.
FirstSegment(stem) ==
    IF \E i \in 1..Len(stem) : stem[i] = "_"
    THEN Take(stem, (CHOOSE i \in 1..Len(stem) :
                        /\ stem[i] = "_"
                        /\ \A j \in 1..(i - 1) : stem[j] # "_") - 1)
    ELSE stem

\* Classify with the arms matched by starts_with instead of on the first
\* segment.
Classify_ByPrefix(stem) ==
    IF Len(stem) >= 8 /\ Take(stem, 8) = <<"c","o","m","i","s","s","a","o">>
    THEN "Comissao"
    ELSE IF Len(stem) >= 5 /\ Take(stem, 5) = <<"v","a","l","e","s">>
    THEN "Vales"
    ELSE "Unsupported"

\* The arm of the match on the first segment.
Classify(stem) ==
    IF FirstSegment(stem) = <<"c","o","m","i","s","s","a","o">> THEN "Comissao"
    ELSE IF FirstSegment(stem) = <<"v","a","l","e","s">> THEN "Vales"
    ELSE "Unsupported"

\* ------------------------------------------------------------ str -> f64

\* An f64 is finite (k = "fin", v in units of 10^-FracDigits), an infinity
\* or NaN.
Fin(v) == [k |-> "fin", v |-> v]

PosInf == [k |-> "inf", v |-> 0]

NegInf == [k |-> "ninf", v |-> 0]

NaN == [k |-> "nan", v |-> 0]

FNeg(a) ==
    CASE a.k = "fin" -> Fin(0 - a.v)
      [] a.k = "inf" -> NegInf
      [] a.k = "ninf" -> PosInf
      [] OTHER -> NaN

\* IEEE addition on the modelled values.
FAdd(a, b) ==
    CASE a.k = "nan" \/ b.k = "nan" -> NaN
      [] a.k = "inf" /\ b.k = "ninf" -> NaN
      [] a.k = "ninf" /\ b.k = "inf" -> NaN
      [] a.k = "inf" \/ b.k = "inf" -> PosInf
      [] a.k = "ninf" \/ b.k = "ninf" -> NegInf
      [] OTHER -> Fin(a.v + b.v)

\* Length of the leading run of digits of t.
DigitRun(t) ==
    IF \E i \in 1..Len(t) : ~IsDigit(t[i])
    THEN (CHOOSE i \in 1..Len(t) :
             /\ ~IsDigit(t[i])
             /\ \A j \in 1..(i - 1) : IsDigit(t[j])) - 1
    ELSE Len(t)

RECURSIVE DigitsValue(_)
DigitsValue(t) ==
    IF Len(t) = 0 THEN 0
    ELSE 10 * DigitsValue(Take(t, Len(t) - 1)) + DigitVal(t[Len(t)])

HasSign(t) == Len(t) > 0 /\ t[1] \in {"+", "-"}

Unsigned(t) == IF HasSign(t) THEN Tail(t) ELSE t

\* The decimal grammar of f64::from_str after the sign: digits, an optional
\* point and digits (at least one digit in all), an optional exponent.
DecimalParts(body) ==
    LET n1   == DigitRun(body)
        r1   == Drop(body, n1)
        dot  == Len(r1) > 0 /\ r1[1] = "."
        r2   == IF dot THEN Tail(r1) ELSE r1
        n2   == IF dot THEN DigitRun(r2) ELSE 0
        r3   == Drop(r2, n2)
        hasE == Len(r3) > 0 /\ r3[1] \in {"e", "E"}
        r4   == IF hasE THEN Tail(r3) ELSE r3
        eNeg == hasE /\ Len(r4) > 0 /\ r4[1] = "-"
        r5   == IF hasE THEN Unsigned(r4) ELSE r4
        n5   == IF hasE THEN DigitRun(r5) ELSE 0
    IN  [ok   |-> /\ n1 + n2 >= 1
                  /\ IF hasE THEN n5 >= 1 /\ n5 = Len(r5) ELSE Len(r3) = 0,
         mant |-> Take(body, n1) \o Take(r2, n2),
         frac |-> n2,
         exp  |-> IF eNeg THEN 0 - DigitsValue(Take(r5, n5))
                  ELSE DigitsValue(Take(r5, n5))]

\* Value of a recognised decimal: mantissa * 10^(exp - frac), infinite past
\* the f64 range, truncated below the model's resolution.
DecimalValue(p) ==
    LET m == DigitsValue(p.mant)
        e == p.exp - p.frac + FracDigits
    IN  IF m = 0 THEN Fin(0)
        ELSE IF Len(p.mant) + p.exp - p.frac > 309 THEN PosInf
        ELSE IF e >= 0 THEN Fin(m * Pow10(e))
        ELSE Fin(m \div Pow10(0 - e))

\* str::parse::<f64>(): Some(value), or None for Err(ParseFloatError).
ParseF64(t) ==
    LET body == Unsigned(t)
        neg  == HasSign(t) /\ t[1] = "-"
        low  == ToLower(body)
        p    == DecimalParts(body)
        sgn(x) == IF neg THEN FNeg(x) ELSE x
    IN  IF low \in {<<"i","n","f">>, <<"i","n","f","i","n","i","t","y">>}
        THEN Some(sgn(PosInf))
        ELSE IF low = <<"n","a","n">> THEN Some(NaN)
        ELSE IF p.ok THEN Some(sgn(DecimalValue(p)))
        ELSE None

\* .parse::<f64>().unwrap_or(0.0)
ParseOrZero(t) ==
    IF ParseF64(t).none THEN Fin(0) ELSE ParseF64(t).val

\* -------------------------------------------------------------- csv text

\* csv's default quoting: a field is quoted when it holds the delimiter,
\* a quote, or a line break.
NeedsQuotes(f) ==
    \E i \in 1..Len(f) : f[i] \in {DELIM, QUOTE, NL, "\r"}

RECURSIVE DoubleQuotes(_)
DoubleQuotes(f) ==
    IF Len(f) = 0 THEN <<>>
    ELSE (IF Head(f) = QUOTE THEN <<QUOTE, QUOTE>> ELSE <<Head(f)>>)
         \o DoubleQuotes(Tail(f))

\* EncodeField with the quoting left out.
EncodeField_Unquoted(f) == f

EncodeField(f) ==
    IF NeedsQuotes(f) THEN <<QUOTE>> \o DoubleQuotes(f) \o <<QUOTE>> ELSE f

RECURSIVE JoinFields(_)
JoinFields(fs) ==
    IF Len(fs) = 0 THEN <<>>
    ELSE IF Len(fs) = 1 THEN EncodeField(fs[1])
    ELSE EncodeField(fs[1]) \o <<DELIM>> \o JoinFields(Tail(fs))

\* The characters write_record puts out for one record.
EncodeRecord(fs) == JoinFields(fs) \o <<NL>>

\* ------------------------------------------------------------ the inputs

\* Stems of the selected *.xml file.
Stems ==
    { <<"c","o","m","i","s","s","a","o","_","1">>,
      <<"v","a","l","e","s","_","1">>,
      <<"c","o","m","i","s","s","a","o">>,
      <<"v","a","l","e","s">>,
      <<"v","a","l","e","s","x","_","1">>,
      <<"V","a","l","e","s","_","1">>,
      <<"o","u","t","r","o","_","1">> }

Funcionario(cpf, valor, meta_premio) ==
    [cpf |-> cpf, valor |-> valor, meta_premio |-> meta_premio]

\* <Funcionario> elements a document may hold: plain amounts, a missing
\* and an empty MetaPremio, texts f64 rejects, texts that are no decimal
\* but that f64 accepts, and texts csv has to quote.
FuncPool ==
    { Funcionario(<<"1","1","1">>, <<"1","0","0",".","5","0">>,
                  Some(<<"1","0",".","0","0">>)),
      Funcionario(<<"2","2","2">>, <<"-",".","5">>, None),
      Funcionario(<<"3",";","\"">>, <<"a",NL,"c">>, Some(<<>>)),
      Funcionario(<<"4","4","4">>, <<"N","a","N">>, Some(<<"1","e","2">>)),
      Funcionario(<<"5">>, <<"a","b","c">>, Some(<<"i","n","f">>)) }

RECURSIVE SeqsUpTo(_, _)
SeqsUpTo(S, n) ==
    IF n = 0 THEN {<<>>}
    ELSE LET shorter == SeqsUpTo(S, n - 1)
         IN  shorter \cup {Append(q, x) : q \in shorter, x \in S}

\* The XML documents: the root element's name, whether the document is
\* well-formed with every required field present, the company fields and
\* the <Funcionario> elements in document order.
Docs ==
    [root : {"Comissao", "Vales"},
     wellformed : BOOLEAN,
     fantasia : {<<"A",";","c">>},
     razao : {<<"A","L">>},
     cnpj : {<<"0","0">>},
     mes_ano : {<<"0","1">>},
     funcs : SeqsUpTo(FuncPool, MaxFunc)]

\* The sibling .csv file before the run: missing, or left by an earlier run.
NoFile == [exists |-> FALSE, data |-> <<>>]

OldFile == [exists |-> TRUE, data |-> <<"o","l","d",NL>>]

\* ------------------------------------------------------ document parsing

\* EmpresaOf with funcionarios a Vec that defaults to empty instead of an
\* Option.
EmpresaOf_AlwaysSome(d) ==
    [fantasia |-> d.fantasia, razao |-> d.razao, cnpj |-> d.cnpj,
     mes_ano |-> d.mes_ano, funcionarios |-> Some(d.funcs)]

\* The Empresa a document deserializes to.  funcionarios is an
\* Option<Vec<Funcionario>> filled from the repeated <Funcionario>
\* elements: None when the document holds none.
EmpresaOf(d) ==
    [fantasia |-> d.fantasia, razao |-> d.razao, cnpj |-> d.cnpj,
     mes_ano |-> d.mes_ano,
     funcionarios |-> IF Len(d.funcs) = 0 THEN None ELSE Some(d.funcs)]

\* serde_xml_rs::from_reader into Comissao or Vales: the results it may
\* give, None standing for Err.  Both structs hold the one field Empresa;
\* whether a root element named otherwise is an error is the
\* deserializer's choice, and both answers are allowed.
FromReader(tipo, d) ==
    IF ~d.wellformed THEN {None}
    ELSE IF d.root # tipo THEN {None, Some(EmpresaOf(d))}
    ELSE {Some(EmpresaOf(d))}

\* ------------------------------------------------------------ csv writer

\* File::write_all of data at the end of a file: the new contents when it
\* succeeds, or an error that leaves a proper prefix of data written.
WriteAll(file, data) ==
    {[ok |-> TRUE, file |-> file \o data]}
    \cup {[ok |-> FALSE, file |-> file \o Take(data, k)] :
             k \in 0..(Len(data) - 1)}

\* How much of the pending text the writer hands to the file while it
\* takes in a record: it writes out its buffer each time the buffer is
\* full and more is to come.
Spill(total) ==
    IF Len(total) > BufCap THEN BufCap * ((Len(total) - 1) \div BufCap) ELSE 0

\* csv::Writer::write_record: the record is encoded into the buffer, which
\* spills to the file when full.  On an error the unwritten text stays
\* pending.
WriteRecord(file, buffer, fields) ==
    LET total == buffer \o EncodeRecord(fields)
        n     == Spill(total)
    IN  { [ok   |-> r.ok,
           file |-> r.file,
           buf  |-> Drop(total, Len(r.file) - Len(file))] :
             r \in WriteAll(file, Take(total, n)) }

\* csv::Writer::flush: the whole buffer goes to the file.
FlushWriter(file, buffer) ==
    { [ok   |-> r.ok,
       file |-> r.file,
       buf  |-> Drop(buffer, Len(r.file) - Len(file))] :
         r \in WriteAll(file, buffer) }

\* The writer going out of scope: csv flushes what is still buffered and
\* drops the error, so the text reaches the file or it does not.  (A part
\* of it reaching the file gives a prefix that the failed write before the
\* drop already leaves.)
DropWriter(file, buffer) == {file, file \o buffer}

\* ----------------------------------------------------------------- rows

HeaderComissao ==
    << <<"F","a","n","t","a","s","i","a">>, <<"R","a","z","a","o">>,
       <<"C","N","P","J">>, <<"M","e","s","A","n","o">>, <<"C","P","F">>,
       <<"V","a","l","o","r">>,
       <<"M","e","t","a","P","r","e","m","i","o">> >>

HeaderVales ==
    << <<"F","a","n","t","a","s","i","a">>, <<"R","a","z","a","o">>,
       <<"C","N","P","J">>, <<"M","e","s","A","n","o">>, <<"C","P","F">>,
       <<"V","a","l","o","r">> >>

\* if let Some(meta_premio) = &funcionario.meta_premio { .. } else { "" }
MetaPremioText(f) ==
    IF f.meta_premio.none THEN <<>> ELSE f.meta_premio.val

RowComissao(e, f) ==
    <<e.fantasia, e.razao, e.cnpj, e.mes_ano, f.cpf, f.valor,
      MetaPremioText(f)>>

RowVales(e, f) ==
    <<e.fantasia, e.razao, e.cnpj, e.mes_ano, f.cpf, f.valor>>

\* ------------------------------------------------------------- the state

VARIABLES
    stem,                     \* selected_file_stem
    doc,                      \* the XML document the selected file holds
    csv0,                     \* the sibling .csv file before the run
    csv,                      \* the sibling .csv file
    pc,                       \* the step the conversion is at
    tipo_arquivo,             \* "Comissao" or "Vales" once classified
    empresa,                  \* the parsed Empresa, None before parsing
    buf,                      \* text buffered in csv_writer
    idx,                      \* funcionarios the loop has taken
    total_comissao, total_meta, total_vales,
    quantidade_funcionarios,
    outcome,                  \* how the conversion ended
    summary,                  \* the figures of the success message
    steps,                    \* the steps executed so far, in order
    ioFailed                  \* an open, create or write has failed

vars == <<stem, doc, csv0, csv, pc, tipo_arquivo, empresa, buf, idx,
          total_comissao, total_meta, total_vales, quantidade_funcionarios,
          outcome, summary, steps, ioFailed>>

inputs == <<stem, doc, csv0>>

totals == <<total_comissao, total_meta, total_vales,
            quantidade_funcionarios>>

Init ==
    /\ stem \in Stems
    /\ doc \in Docs
    /\ csv0 \in {NoFile, OldFile}
    /\ csv = csv0
    /\ pc = "open"
    /\ tipo_arquivo = "None"
    /\ empresa = None
    /\ buf = <<>>
    /\ idx = 0
    /\ total_comissao = Fin(0)
    /\ total_meta = Fin(0)
    /\ total_vales = Fin(0)
    /\ quantidade_funcionarios = 0
    /\ outcome = "Running"
    /\ summary = None
    /\ steps = <<>>
    /\ ioFailed = FALSE

\* The Vec the handler iterates over.
Funcionarios == empresa.val.funcionarios.val

Step(name, k) == steps' = Append(steps, <<name, k>>)

\* Finish with the failed step tried again instead of returning.
Finish_Retry(result) ==
    /\ outcome' = result
    /\ pc' = pc

\* `?` on an Err, or a return before the end: the conversion is over.
Finish(result) ==
    /\ outcome' = result
    /\ pc' = "done"

\* ------------------------------------------------------------------ main

\* File::open(selected_file)?
OpenInput ==
    /\ pc = "open"
    /\ Step("open", 0)
    /\ \/ /\ pc' = "classify"
          /\ UNCHANGED <<outcome, ioFailed>>
       \/ /\ Finish("OpenFailure")
          /\ ioFailed' = TRUE
    /\ UNCHANGED <<inputs, csv, tipo_arquivo, empresa, buf, idx, totals,
                   summary>>

\* match selected_file_stem.split('_').next()
ClassifyStem ==
    /\ pc = "classify"
    /\ Step("classify", 0)
    /\ IF Classify(stem) = "Unsupported"
       THEN /\ Finish("UnsupportedSchema")
            /\ UNCHANGED tipo_arquivo
       ELSE /\ tipo_arquivo' = Classify(stem)
            /\ pc' = "parse"
            /\ UNCHANGED outcome
    /\ UNCHANGED <<inputs, csv, empresa, buf, idx, totals, summary, ioFailed>>

\* serde_xml_rs::from_reader(reader)? in the matched arm
ParseDocument ==
    /\ pc = "parse"
    /\ Step("parse", 0)
    /\ \E r \in FromReader(tipo_arquivo, doc) :
          IF r.none
          THEN /\ Finish("MalformedDocument")
               /\ UNCHANGED empresa
          ELSE /\ empresa' = r
               /\ pc' = "check"
               /\ UNCHANGED outcome
    /\ UNCHANGED <<inputs, csv, tipo_arquivo, buf, idx, totals, summary,
                   ioFailed>>

\* --------------------------------------------------- the two handlers

\* CheckFuncionarios with File::create moved ahead of the None check.
CheckFuncionarios_CreatesFirst ==
    /\ Step("check", 0)
    /\ IF empresa.val.funcionarios.none
       THEN Finish("NoEmployeeData")
       ELSE /\ pc' = "create"
            /\ UNCHANGED outcome
    /\ csv' = [exists |-> TRUE, data |-> <<>>]
    /\ UNCHANGED <<inputs, tipo_arquivo, empresa, buf, idx, totals,
                   summary, ioFailed>>

\* match empresa.funcionarios { Some(..) => .., None => return Ok(()) }
CheckFuncionarios ==
    /\ Step("check", 0)
    /\ IF empresa.val.funcionarios.none
       THEN Finish("NoEmployeeData")
       ELSE /\ pc' = "create"
            /\ UNCHANGED outcome
    /\ UNCHANGED <<inputs, csv, tipo_arquivo, empresa, buf, idx, totals,
                   summary, ioFailed>>

\* File::create(&csv_file_path)? and the writer built on the file
CreateOutput ==
    /\ Step("create", 0)
    /\ \/ /\ csv' = [exists |-> TRUE, data |-> <<>>]
          /\ pc' = "header"
          /\ UNCHANGED <<outcome, ioFailed>>
       \/ /\ Finish("WriteFailure")
          /\ ioFailed' = TRUE
          /\ UNCHANGED csv
    /\ buf' = <<>>
    /\ UNCHANGED <<inputs, tipo_arquivo, empresa, idx, totals, summary>>

\* csv_writer.write_record(fields)?, going on to pc = next when it
\* succeeds; on an error the function returns and csv_writer is dropped.
WriteOrFail(fields, next) ==
    \E r \in WriteRecord(csv.data, buf, fields) :
        IF r.ok
        THEN /\ csv' = [csv EXCEPT !.data = r.file]
             /\ buf' = r.buf
             /\ pc' = next
             /\ UNCHANGED <<outcome, ioFailed>>
        ELSE /\ \E f \in DropWriter(r.file, r.buf) :
                    csv' = [csv EXCEPT !.data = f]
             /\ buf' = <<>>
             /\ Finish("WriteFailure")
             /\ ioFailed' = TRUE

AfterHeader == IF Len(Funcionarios) = 0 THEN "flush" ELSE "rows"

\* AfterRow with the loop ending one employee early.
AfterRow_OneShort == IF idx + 2 >= Len(Funcionarios) THEN "flush" ELSE "rows"

AfterRow == IF idx + 1 = Len(Funcionarios) THEN "flush" ELSE "rows"

\* FlushOutput with the call to flush left out.
FlushOutput_Skipped ==
    /\ Step("flush", 0)
    /\ pc' = "summary"
    /\ UNCHANGED <<inputs, csv, buf, tipo_arquivo, empresa, idx, totals,
                   summary, outcome, ioFailed>>

\* csv_writer.flush()?
FlushOutput ==
    /\ Step("flush", 0)
    /\ \E r \in FlushWriter(csv.data, buf) :
          IF r.ok
          THEN /\ csv' = [csv EXCEPT !.data = r.file]
               /\ buf' = r.buf
               /\ pc' = "summary"
               /\ UNCHANGED <<outcome, ioFailed>>
          ELSE /\ \E f \in DropWriter(r.file, r.buf) :
                      csv' = [csv EXCEPT !.data = f]
               /\ buf' = <<>>
               /\ Finish("WriteFailure")
               /\ ioFailed' = TRUE
    /\ UNCHANGED <<inputs, tipo_arquivo, empresa, idx, totals, summary>>

\* println!(..) of the success message and Ok(()); csv_writer is dropped.
PrintSummary(figures) ==
    /\ Step("summary", 0)
    /\ summary' = Some(figures)
    /\ \E f \in DropWriter(csv.data, buf) : csv' = [csv EXCEPT !.data = f]
    /\ buf' = <<>>
    /\ Finish("Converted")
    /\ UNCHANGED <<inputs, tipo_arquivo, empresa, idx, totals, ioFailed>>

\* ------------------------------------------ handle_arquivo_comissao

ComissaoCheck ==
    /\ pc = "check" /\ tipo_arquivo = "Comissao"
    /\ CheckFuncionarios

ComissaoCreate ==
    /\ pc = "create" /\ tipo_arquivo = "Comissao"
    /\ CreateOutput

ComissaoHeader ==
    /\ pc = "header" /\ tipo_arquivo = "Comissao"
    /\ Step("header", 0)
    /\ WriteOrFail(HeaderComissao, AfterHeader)
    /\ UNCHANGED <<inputs, tipo_arquivo, empresa, idx, totals, summary>>

\* One iteration of `for funcionario in funcionarios`.
ComissaoRow ==
    /\ pc = "rows" /\ tipo_arquivo = "Comissao"
    /\ idx < Len(Funcionarios)
    /\ Step("rows", idx + 1)
    /\ LET funcionario == Funcionarios[idx + 1]
       IN  /\ total_comissao' =
                 FAdd(total_comissao, ParseOrZero(funcionario.valor))
           /\ total_meta' =
                 FAdd(total_meta, ParseOrZero(MetaPremioText(funcionario)))
           /\ quantidade_funcionarios' = quantidade_funcionarios + 1
           /\ WriteOrFail(RowComissao(empresa.val, funcionario), AfterRow)
    /\ idx' = idx + 1
    /\ UNCHANGED <<inputs, tipo_arquivo, empresa, total_vales, summary>>

ComissaoFlush ==
    /\ pc = "flush" /\ tipo_arquivo = "Comissao"
    /\ FlushOutput

ComissaoSummary ==
    /\ pc = "summary" /\ tipo_arquivo = "Comissao"
    /\ PrintSummary([quantidade |-> quantidade_funcionarios,
                     total |-> total_comissao,
                     total_meta |-> Some(total_meta)])

\* --------------------------------------------- handle_arquivo_vales

ValesCheck ==
    /\ pc = "check" /\ tipo_arquivo = "Vales"
    /\ CheckFuncionarios

ValesCreate ==
    /\ pc = "create" /\ tipo_arquivo = "Vales"
    /\ CreateOutput

ValesHeader ==
    /\ pc = "header" /\ tipo_arquivo = "Vales"
    /\ Step("header", 0)
    /\ WriteOrFail(HeaderVales, AfterHeader)
    /\ UNCHANGED <<inputs, tipo_arquivo, empresa, idx, totals, summary>>

ValesRow ==
    /\ pc = "rows" /\ tipo_arquivo = "Vales"
    /\ idx < Len(Funcionarios)
    /\ Step("rows", idx + 1)
    /\ LET funcionario == Funcionarios[idx + 1]
       IN  /\ total_vales' =
                 FAdd(total_vales, ParseOrZero(funcionario.valor))
           /\ quantidade_funcionarios' = quantidade_funcionarios + 1
           /\ WriteOrFail(RowVales(empresa.val, funcionario), AfterRow)
    /\ idx' = idx + 1
    /\ UNCHANGED <<inputs, tipo_arquivo, empresa, total_comissao, total_meta,
                   summary>>

ValesFlush ==
    /\ pc = "flush" /\ tipo_arquivo = "Vales"
    /\ FlushOutput

ValesSummary ==
    /\ pc = "summary" /\ tipo_arquivo = "Vales"
    /\ PrintSummary([quantidade |-> quantidade_funcionarios,
                     total |-> total_vales,
                     total_meta |-> None])

\* ------------------------------------------------------------------ spec

Next ==
    \/ OpenInput
    \/ ClassifyStem
    \/ ParseDocument
    \/ ComissaoCheck
    \/ ComissaoCreate
    \/ ComissaoHeader
    \/ ComissaoRow
    \/ ComissaoFlush
    \/ ComissaoSummary
    \/ ValesCheck
    \/ ValesCreate
    \/ ValesHeader
    \/ ValesRow
    \/ ValesFlush
    \/ ValesSummary

Spec == Init /\ [][Next]_vars

\* ------------------------------------------- vocabulary of the properties

Executed(name) == \E i \in 1..Len(steps) : steps[i][1] = name

\* The employees of the document and their number.
DocFuncs == doc.funcs

N == Len(doc.funcs)

\* The document is one the classified variant's parser accepts by its own
\* shape: well-formed, required fields present, root named as the variant.
ValidFor(tipo) == doc.wellformed /\ doc.root = tipo

\* Reading a csv file back (delimiter ';', doubled quotes, empty lines
\* skipped): the sequence of the records its characters hold, taken field
\* by field.
IsSeparator(c) == c \in {DELIM, NL, "\r"}

\* The first separator at or after position i, Len(s) + 1 when none.
FieldEnd(s, i) ==
    IF \E e \in i..Len(s) : IsSeparator(s[e])
    THEN CHOOSE e \in i..Len(s) :
            /\ IsSeparator(s[e])
            /\ \A x \in i..(e - 1) : ~IsSeparator(s[x])
    ELSE Len(s) + 1

QuotesIn(s, a, b) == Cardinality({k \in a..b : s[k] = QUOTE})

\* The quote at k closes the quoted field opened at i: the quotes between
\* are paired and the quote is not the first of a pair.
IsClosing(s, i, k) ==
    /\ s[k] = QUOTE
    /\ QuotesIn(s, i + 1, k - 1) % 2 = 0
    /\ (k = Len(s) \/ s[k + 1] # QUOTE)

ClosingQuote(s, i) ==
    IF \E k \in (i + 1)..Len(s) : IsClosing(s, i, k)
    THEN CHOOSE k \in (i + 1)..Len(s) :
            /\ IsClosing(s, i, k)
            /\ \A x \in (i + 1)..(k - 1) : ~IsClosing(s, i, x)
    ELSE Len(s) + 1

\* s[a..b] with each doubled quote read as one.
Unescaped(s, a, b) ==
    LET kept == {k \in a..b : s[k] # QUOTE \/ QuotesIn(s, a, k) % 2 = 0}
    IN  [n \in 1..Cardinality(kept) |->
            s[CHOOSE k \in kept : Cardinality({x \in kept : x <= k}) = n]]

\* st: "sr" at the start of a record, "sf" at the start of a later field.
RECURSIVE ReadFields(_, _, _, _, _)
ReadFields(s, i, st, rec, recs) ==
    IF i > Len(s)
    THEN IF st = "sr" THEN recs ELSE Append(recs, Append(rec, <<>>))
    ELSE IF st = "sr" /\ s[i] \in {NL, "\r"}
    THEN ReadFields(s, i + 1, "sr", <<>>, recs)
    ELSE
      LET quoted == s[i] = QUOTE
          j   == IF quoted THEN ClosingQuote(s, i) ELSE i - 1
          e   == FieldEnd(s, j + 1)
          fld == (IF quoted THEN Unescaped(s, i + 1, j - 1) ELSE <<>>)
                 \o SubSeq(s, j + 1, e - 1)
      IN  IF e > Len(s) THEN Append(recs, Append(rec, fld))
          ELSE IF s[e] = DELIM
          THEN ReadFields(s, e + 1, "sf", Append(rec, fld), recs)
          ELSE ReadFields(s, e + 1, "sr", <<>>, Append(recs, Append(rec, fld)))

ReadCsv(s) == ReadFields(s, 1, "sr", <<>>, <<>>)

\* The records a csv reader finds in the output file.
Records == ReadCsv(csv.data)

\* The handler holds the employee list (it is past the None check).
InHandler ==
    /\ tipo_arquivo \in {"Comissao", "Vales"}
    /\ ~empresa.none
    /\ ~empresa.val.funcionarios.none
    /\ pc \in {"create", "header", "rows", "flush", "summary", "done"}

PrimaryTotal ==
    IF tipo_arquivo = "Comissao" THEN total_comissao ELSE total_vales

\* A decimal number written out: sign, digits, point, exponent.
IsDecimalText(t) == DecimalParts(Unsigned(t)).ok

\* Numeric coercion as the design states it: the value of a decimal text,
\* zero for any other text.
Coerce(t) == IF IsDecimalText(t) THEN ParseF64(t).val ELSE Fin(0)

RECURSIVE SumCoerce(_)
SumCoerce(texts) ==
    IF Len(texts) = 0 THEN Fin(0)
    ELSE FAdd(SumCoerce(Take(texts, Len(texts) - 1)),
              Coerce(texts[Len(texts)]))

Valores(fs) == [i \in 1..Len(fs) |-> fs[i].valor]

Metas(fs) == [i \in 1..Len(fs) |-> MetaPremioText(fs[i])]

StartsWith(t, prefix) ==
    Len(t) >= Len(prefix) /\ Take(t, Len(prefix)) = prefix

ComissaoText == <<"c","o","m","i","s","s","a","o">>

ValesText == <<"v","a","l","e","s">>

\* The stem starts with `comissao_` or `vales_`.
HasUnderscorePrefix(t) ==
    \/ StartsWith(t, ComissaoText \o <<"_">>)
    \/ StartsWith(t, ValesText \o <<"_">>)

\* ... or is exactly `comissao` or `vales`.
HasSegmentPrefix(t) ==
    HasUnderscorePrefix(t) \/ t = ComissaoText \/ t = ValesText

\* Position of a step in the pipeline; the rows come one after another.
Rank(step) ==
    CASE step[1] = "open" -> 1
      [] step[1] = "classify" -> 2
      [] step[1] = "parse" -> 3
      [] step[1] = "check" -> 4
      [] step[1] = "create" -> 5
      [] step[1] = "header" -> 6
      [] step[1] = "rows" -> 7
      [] step[1] = "flush" -> 8
      [] step[1] = "summary" -> 9

Before(a, b) ==
    \/ Rank(a) < Rank(b)
    \/ Rank(a) = Rank(b) /\ a[1] = "rows" /\ b[2] = a[2] + 1

\* ------------------------------------------------------------ properties

\* C1: a valid commission document with N >= 1 employees, converted with
\* no I/O operation failing, ends converted with a file of exactly N + 1
\* csv records, the header followed by N seven-field rows, and the summary
\* reports N employees.
C1_CommissionRecordCount ==
    ( /\ pc = "done"
      /\ ~ioFailed
      /\ Classify(stem) = "Comissao"
      /\ ValidFor("Comissao")
      /\ N >= 1 )
    => LET recs == Records
       IN  /\ outcome = "Converted"
           /\ csv.exists
           /\ Len(recs) = N + 1
           /\ recs[1] = HeaderComissao
           /\ \A i \in 2..Len(recs) : Len(recs[i]) = 7
           /\ summary.val.quantidade = N

C1_Witness ==
    /\ pc = "done"
    /\ outcome = "Converted"
    /\ tipo_arquivo = "Comissao"
    /\ ValidFor("Comissao")
    /\ N = 2
    /\ Len(Records) = 3

\* C2: a valid document of either variant with no <Funcionario> element
\* never touches the sibling .csv file (none is created, an old one is
\* kept) and, when the input could be opened, ends in NoEmployeeData.
C2_NoDataNoFile ==
    ( /\ Classify(stem) \in {"Comissao", "Vales"}
      /\ ValidFor(Classify(stem))
      /\ N = 0 )
    => /\ csv = csv0
       /\ ~Executed("create")
       /\ (pc = "done" /\ ~ioFailed => outcome = "NoEmployeeData")

C2_Witness ==
    /\ pc = "done"
    /\ outcome = "NoEmployeeData"
    /\ tipo_arquivo = "Vales"
    /\ ValidFor("Vales")
    /\ N = 0
    /\ csv0 = NoFile
    /\ ~csv.exists

\* C3 as stated: parsing is reached only for stems that start with
\* `comissao_` or `vales_`, and every other stem (of a file that opens)
\* ends in UnsupportedSchema with nothing parsed and no output created.
C3_Original ==
    /\ Executed("parse") => HasUnderscorePrefix(stem)
    /\ (pc = "done" /\ ~ioFailed /\ ~HasUnderscorePrefix(stem))
          => /\ outcome = "UnsupportedSchema"
             /\ ~Executed("parse")
             /\ ~Executed("create")
             /\ csv = csv0

\* C3 amended: parsing is reached only for stems whose text before the
\* first underscore is exactly `comissao` or `vales` (the stems `comissao`
\* and `vales` themselves included); every other stem, once the input file
\* is open, ends in UnsupportedSchema with nothing parsed and no output
\* created.
C3_FirstSegmentDecides ==
    /\ Executed("parse") => HasSegmentPrefix(stem)
    /\ (pc = "done" /\ ~ioFailed /\ ~HasSegmentPrefix(stem))
          => /\ outcome = "UnsupportedSchema"
             /\ ~Executed("parse")
             /\ ~Executed("create")
             /\ csv = csv0

C3_Witness ==
    /\ pc = "done"
    /\ outcome = "UnsupportedSchema"
    /\ stem = <<"v","a","l","e","s","x","_","1">>
    /\ steps = << <<"open", 0>>, <<"classify", 0>> >>

\* C5 as stated: while no I/O operation fails, every processed employee is
\* counted, one whose Valor is no decimal adds nothing to the total (the
\* total is the sum of the decimal Valor texts alone), the conversion does
\* not abort on it, and its row carries the Valor text verbatim.
C5_Original ==
    (InHandler /\ ValidFor(tipo_arquivo) /\ ~ioFailed) =>
      LET fs == Take(DocFuncs, idx)
          decimals == SelectSeq(Valores(fs), IsDecimalText)
      IN  /\ quantidade_funcionarios = idx
          /\ PrimaryTotal = SumCoerce(decimals)
          /\ (pc = "done" => outcome = "Converted")
          /\ outcome = "Converted" =>
                LET recs == Records
                IN  \A i \in 1..N :
                        ~IsDecimalText(DocFuncs[i].valor)
                            => recs[i + 1][6] = DocFuncs[i].valor

\* C6 as stated: in the commission handler the running totals are, after
\* every iteration, the sums of coerce(Valor) and coerce(MetaPremio) over
\* the employees taken so far, and the summary reports the sums over all.
C6_Original ==
    (InHandler /\ tipo_arquivo = "Comissao" /\ ValidFor("Comissao")) =>
      /\ total_comissao = SumCoerce(Valores(Take(DocFuncs, idx)))
      /\ total_meta = SumCoerce(Metas(Take(DocFuncs, idx)))
      /\ outcome = "Converted" =>
            /\ summary.val.total = SumCoerce(Valores(DocFuncs))
            /\ summary.val.total_meta = Some(SumCoerce(Metas(DocFuncs)))

\* C7: after a conversion that succeeded, of either variant, the (CPF,
\* Valor) columns of the data rows read back from the csv file are the
\* (CPF, Valor) pairs of the document's employees, in document order.
C7_RoundTrip ==
    (pc = "done" /\ outcome = "Converted") =>
      LET recs == Records
      IN  /\ Len(recs) >= 1
          /\ [i \in 1..(Len(recs) - 1) |-> <<recs[i + 1][5], recs[i + 1][6]>>]
               = [i \in 1..N |-> <<DocFuncs[i].cpf, DocFuncs[i].valor>>]

C7_Witness ==
    /\ pc = "done"
    /\ outcome = "Converted"
    /\ tipo_arquivo = "Vales"
    /\ N = 2
    /\ DocFuncs[1].cpf = <<"3",";","\"">>
    /\ DocFuncs[2].cpf = <<"1","1","1">>
    /\ Records[2][6] = <<"a",NL,"c">>

\* C8: the steps run in pipeline order, none twice, and once the
\* conversion has ended (failed or not) no further step is executed.
C8_AbortNoRetry ==
    /\ [](\A i \in 1..(Len(steps) - 1) : Before(steps[i], steps[i + 1]))
    /\ [](outcome # "Running" => pc = "done")
    /\ [][outcome # "Running" => steps' = steps]_vars

C8_Witness ==
    /\ pc = "done"
    /\ outcome = "WriteFailure"
    /\ N = 2
    /\ steps[Len(steps)] = <<"rows", 1>>

\* C9: a failed create, write or flush ends the conversion in
\* WriteFailure; success is reported only with the header and all N rows
\* in the file and nothing left buffered; so an output file of fewer than
\* N + 1 records goes with a failure.
C9_WriteFailureSurfaced ==
    /\ (ioFailed /\ Executed("create")) => outcome = "WriteFailure"
    /\ outcome = "Converted" => (Len(Records) = N + 1 /\ buf = <<>>)
    /\ (pc = "done" /\ Executed("create") /\ outcome # "WriteFailure")
          => Len(Records) >= N + 1

C9_Witness ==
    /\ pc = "done"
    /\ outcome = "WriteFailure"
    /\ Executed("rows")
    /\ csv.exists
    /\ Len(csv.data) > 0
    /\ Len(Records) < N + 1

\* C10: the sibling .csv file differs from what it was before the run
\* only after classification, parsing and the employee check succeeded; a
\* run that ends unsupported, malformed or with no data leaves it as it
\* was.
C10_OutputUntouchedBeforeCreate ==
    /\ csv # csv0 => (InHandler /\ Executed("create"))
    /\ ~Executed("create") => csv = csv0
    /\ outcome \in {"UnsupportedSchema", "MalformedDocument",
                    "NoEmployeeData"} => csv = csv0

C10_Witness ==
    /\ pc = "done"
    /\ outcome = "MalformedDocument"
    /\ csv0 = OldFile
    /\ csv = OldFile

====
